---------------------------- MODULE Spec2Model ----------------------------
(***************************************************************************)
(* rbsync (src/app.py): the slice-correspondence state of SliceMatcherApp. *)
(*                                                                         *)
(* A volume is represented by what the handlers read of it: the shape of   *)
(* its array (mri_data.shape / atlas_data.shape) and its 4x4 affine.       *)
(* World positions are integers (a fixed fraction of a millimetre).        *)
(* slice_mapping is a Python dict: a sequence of <<key, value>> pairs in   *)
(* insertion order, with unique keys.                                      *)
(***************************************************************************)
EXTENDS Integers, Sequences, FiniteSets, TLC

VARIABLES mri_data, mri_affine, atlas_data, atlas_affine,
          slice_mapping, current_mri_slice_idx,
          mri_slice_axis, atlas_slice_axis,
          mri_slider, correspondence_label, written, last

vars == <<mri_data, mri_affine, atlas_data, atlas_affine,
          slice_mapping, current_mri_slice_idx,
          mri_slice_axis, atlas_slice_axis,
          mri_slider, correspondence_label, written, last>>

---------------------------------------------------------------------------
(* Bounds of the model: the largest slice counts of the volumes offered to *)
(* the two file dialogs.                                                   *)
MaxMriSlices == 2
MaxAtlasSlices == 3

(* Python's None, for the Optional fields. *)
None == <<>>

Min(a, b) == IF a < b THEN a ELSE b
Max(a, b) == IF a > b THEN a ELSE b
Abs(a) == IF a < 0 THEN -a ELSE a

(* The axis spin box ranges over 0..2 and starts at 2. *)
Axes == {0, 1, 2}
DefaultAxis == 2
axis_names == [a \in Axes |-> CASE a = 0 -> "AP" [] a = 1 -> "LR" [] OTHER -> "SI"]

(* The four adjustment buttons. *)
Deltas == {-10, -1, 1, 10}

---------------------------------------------------------------------------
(* The files the user can pick.  Each has a shape and an affine whose      *)
(* off-diagonal entries are not zero, so that a wrong row or column shows. *)
(* Every MRI has at least one slice along each axis; AtlasB has no slice   *)
(* at all along axis 2.                                                    *)
MriA == [shape  |-> <<2, 1, MaxMriSlices>>,
         affine |-> << <<4, 1, 0, -2>>,
                       <<0, 3, 1, 1>>,
                       <<1, 0, 2, 1>>,
                       <<0, 0, 0, 1>> >>]
MriB == [shape  |-> <<2, 2, 1>>,
         affine |-> << <<-2, 0, 1, 3>>,
                       <<1, 2, 0, 1>>,
                       <<0, 1, 1, 0>>,
                       <<0, 0, 0, 1>> >>]
AtlasA == [shape  |-> <<3, 2, MaxAtlasSlices>>,
           affine |-> << <<2, 0, 1, -1>>,
                         <<1, 0, 0, 5>>,
                         <<0, 1, 2, 0>>,
                         <<0, 0, 0, 1>> >>]
AtlasB == [shape  |-> <<2, MaxAtlasSlices, 0>>,
           affine |-> << <<-2, 1, 0, 4>>,
                         <<0, 2, 1, 0>>,
                         <<1, 0, 1, 2>>,
                         <<0, 0, 0, 1>> >>]
MriFiles == {MriA, MriB}
AtlasFiles == {AtlasA, AtlasB}

(* data.shape[axis] *)
ShapeAt(shape, axis) == shape[axis + 1]

---------------------------------------------------------------------------
(* The dict slice_mapping. *)
EmptyMapping == <<>>
Keys(m) == {m[n][1] : n \in DOMAIN m}
HasKey(m, k) == k \in Keys(m)
PosOf(m, k) == CHOOSE n \in DOMAIN m : m[n][1] = k
Lookup(m, k) == m[PosOf(m, k)][2]

(* m[k] = v: an existing key keeps its place, a new key goes last. *)
MapSetFresh(m, k, v) == << <<k, v>> >>
MapSet(m, k, v) ==
    IF HasKey(m, k) THEN [m EXCEPT ![PosOf(m, k)] = <<k, v>>]
    ELSE Append(m, <<k, v>>)

---------------------------------------------------------------------------
(* QSlider, as the handlers use it.  setMaximum keeps minimum <= maximum   *)
(* by lowering the minimum, and re-bounds the value; valueChanged fires    *)
(* when the value differs afterwards.                                      *)
SliderBound(s, v) == Max(s.min, Min(s.max, v))
SliderSetMaximum(s, mx) ==
    LET mn == Min(s.min, mx)
        r  == [min |-> mn, max |-> Max(mn, mx), value |-> s.value]
    IN [r EXCEPT !.value = SliderBound(r, s.value)]
SliderSetValue(s, v) == [s EXCEPT !.value = SliderBound(s, v)]

---------------------------------------------------------------------------
(* get_slice_position_world: (affine @ voxel_coord)[axis], with voxel_coord *)
(* zero but for voxel_coord[axis] = idx and voxel_coord[3] = 1.             *)
VoxelCoordAllAxes(axis, idx) == [k \in 0..3 |-> IF k = 3 THEN 1 ELSE idx]
VoxelCoord(axis, idx) ==
    [k \in 0..3 |-> IF k = 3 THEN 1 ELSE IF k = axis THEN idx ELSE 0]

RECURSIVE RowDot(_, _, _)
RowDot(row, vec, k) ==
    IF k > 3 THEN 0 ELSE row[k + 1] * vec[k] + RowDot(row, vec, k + 1)

get_slice_position_world(affine, axis, idx) ==
    RowDot(affine[axis + 1], VoxelCoord(axis, idx), 0)

(* float('inf') for min_distance: distances are never negative. *)
Infinity == -1
LessOrEqual(d, m) == m = Infinity \/ d <= m
LessThan(d, m) == m = Infinity \/ d < m

(* The loop of find_matching_atlas_slice, from atlas_idx on. *)
RECURSIVE ScanAtlas(_, _, _, _, _, _, _)
ScanAtlas(affine, axis, num_atlas_slices, mri_world_pos, atlas_idx, best_atlas_idx, min_distance) ==
    IF atlas_idx >= num_atlas_slices THEN best_atlas_idx
    ELSE LET distance ==
                 Abs(get_slice_position_world(affine, axis, atlas_idx) - mri_world_pos)
         IN IF LessThan(distance, min_distance)
            THEN ScanAtlas(affine, axis, num_atlas_slices, mri_world_pos,
                           atlas_idx + 1, atlas_idx, distance)
            ELSE ScanAtlas(affine, axis, num_atlas_slices, mri_world_pos,
                           atlas_idx + 1, best_atlas_idx, min_distance)

find_matching_atlas_slice(mriAff, atlasAff, atlasData, mriAxis, atlasAxis, mri_slice_idx) ==
    IF mriAff = None \/ atlasAff = None \/ atlasData = None THEN 0
    ELSE ScanAtlas(atlasAff, atlasAxis, ShapeAt(atlasData, atlasAxis),
                   get_slice_position_world(mriAff, mriAxis, mri_slice_idx),
                   0, 0, Infinity)

---------------------------------------------------------------------------
(* get_slice raises IndexError unless -n <= idx < n (numpy indexing). *)
IndexOk(shape, axis, idx) ==
    -ShapeAt(shape, axis) <= idx /\ idx < ShapeAt(shape, axis)

NotLoaded == -1
Label(mri, atlas, mark) == [mri |-> mri, atlas |-> atlas, mark |-> mark]
InitialLabel == Label(NotLoaded, NotLoaded, "?")

(* update_display: the text of correspondence_label afterwards, and whether *)
(* an IndexError left the handler before the text was set.                  *)
update_display(mriData, atlasData, mriAff, atlasAff, mriAxis, atlasAxis, cur, mapping, label) ==
    IF mriData = None THEN [label |-> label, raised |-> FALSE]
    ELSE IF ~IndexOk(mriData, mriAxis, cur) THEN [label |-> label, raised |-> TRUE]
    ELSE IF atlasData = None
         THEN [label |-> Label(cur, NotLoaded, "not loaded"), raised |-> FALSE]
    ELSE LET atlas_slice_idx ==
                 IF HasKey(mapping, cur) THEN Lookup(mapping, cur)
                 ELSE find_matching_atlas_slice(mriAff, atlasAff, atlasData,
                                                mriAxis, atlasAxis, cur)
         IN IF ~IndexOk(atlasData, atlasAxis, atlas_slice_idx)
            THEN [label |-> label, raised |-> TRUE]
            ELSE [label |-> Label(cur, atlas_slice_idx,
                                  IF HasKey(mapping, cur) THEN "matched" ELSE "unmatched"),
                  raised |-> FALSE]

(* The slot on_mri_slice_changed run by a valueChanged signal that a       *)
(* handler's setMaximum / setValue emits: the label it leaves.  An         *)
(* exception in a slot does not unwind the emitting handler.               *)
SlotLabel(oldSlider, newSlider, mriData, atlasData, mriAff, atlasAff, axis, mapping, label) ==
    IF newSlider.value = oldSlider.value THEN label
    ELSE update_display(mriData, atlasData, mriAff, atlasAff, axis, axis,
                        newSlider.value, mapping, label).label

(* current_mri_slice_idx after such a signal, if one was emitted. *)
SlotIdx(oldSlider, newSlider, cur) ==
    IF newSlider.value = oldSlider.value THEN cur ELSE newSlider.value

(* Whether such a signal was emitted and the update_display it ran took    *)
(* atlas_slice_idx from an entry of mapping (self.slice_mapping[...]).     *)
SlotReads(oldSlider, newSlider, mriData, atlasData, axis, mapping) ==
    /\ newSlider.value # oldSlider.value
    /\ mriData # None
    /\ IndexOk(mriData, axis, newSlider.value)
    /\ atlasData # None
    /\ HasKey(mapping, newSlider.value)

---------------------------------------------------------------------------
(* What the handler that just ran did: its name, its argument, how it      *)
(* ended (the line it logged), and what it found on entry: the number of   *)
(* entries of slice_mapping and the entry of the current slice, if any.    *)
(* slot_read: a slot run inside the handler displayed an entry that        *)
(* slice_mapping held on entry.                                            *)
NoEntry == -1
EntryOf(m, k) == IF HasKey(m, k) THEN Lookup(m, k) ELSE NoEntry
Event(op, arg, outcome) ==
    [op |-> op, arg |-> arg, outcome |-> outcome,
     size |-> Len(slice_mapping),
     prior |-> EntryOf(slice_mapping, current_mri_slice_idx),
     slot_read |-> FALSE]
NoOutput == [kind |-> "none", header |-> <<>>, rows |-> <<>>, axis |-> -1,
             axis_name |-> "", mri_shape |-> None, atlas_shape |-> None]

Init ==
    /\ mri_data = None
    /\ mri_affine = None
    /\ atlas_data = None
    /\ atlas_affine = None
    /\ slice_mapping = EmptyMapping
    /\ current_mri_slice_idx = 0
    /\ mri_slice_axis = DefaultAxis
    /\ atlas_slice_axis = DefaultAxis
    /\ mri_slider = [min |-> 0, max |-> 0, value |-> 0]
    /\ correspondence_label = InitialLabel
    /\ written = NoOutput
    /\ last = [op |-> "init", arg |-> 0, outcome |-> "initialized",
               size |-> 0, prior |-> NoEntry, slot_read |-> FALSE]


---------------------------------------------------------------------------
(* load_mri.  choice is what the file dialog and nib.load did.             *)
LoadChoices == {"cancelled", "unreadable", "loaded"}

load_mri(file, choice) ==
    /\ written' = NoOutput
    /\ UNCHANGED <<atlas_data, atlas_affine, mri_slice_axis, atlas_slice_axis>>
    /\ IF choice # "loaded"
       THEN /\ last' = Event("load_mri", 0, "nothing loaded")
            /\ UNCHANGED <<mri_data, mri_affine, slice_mapping,
                           current_mri_slice_idx, mri_slider, correspondence_label>>
       ELSE LET data == file.shape
                aff  == file.affine
                axis == mri_slice_axis
                num_slices == ShapeAt(data, axis)
                s1 == SliderSetMaximum(mri_slider, num_slices - 1)
                c1 == SlotIdx(mri_slider, s1, current_mri_slice_idx)
                l1 == SlotLabel(mri_slider, s1, data, atlas_data, aff, atlas_affine,
                                axis, slice_mapping, correspondence_label)
                s2 == SliderSetValue(s1, 0)
                c2 == SlotIdx(s1, s2, c1)
                l2 == SlotLabel(s1, s2, data, atlas_data, aff, atlas_affine,
                                axis, slice_mapping, l1)
                d  == update_display(data, atlas_data, aff, atlas_affine, axis,
                                     atlas_slice_axis, c2, EmptyMapping, l2)
            IN /\ mri_data' = data
               /\ mri_affine' = aff
               /\ mri_slider' = s2
               /\ current_mri_slice_idx' = c2
               /\ slice_mapping' = EmptyMapping
               /\ correspondence_label' = d.label
               /\ last' = [Event("load_mri", 0,
                                 IF d.raised THEN "error after load" ELSE "loaded")
                             EXCEPT !.slot_read =
                                 \/ SlotReads(mri_slider, s1, data, atlas_data,
                                              axis, slice_mapping)
                                 \/ SlotReads(s1, s2, data, atlas_data,
                                              axis, slice_mapping)]

(* load_atlas: slice_mapping is not assigned. *)
load_atlas(file, choice) ==
    /\ written' = NoOutput
    /\ UNCHANGED <<mri_data, mri_affine, mri_slice_axis, atlas_slice_axis,
                   slice_mapping, current_mri_slice_idx, mri_slider>>
    /\ IF choice # "loaded"
       THEN /\ last' = Event("load_atlas", 0, "nothing loaded")
            /\ UNCHANGED <<atlas_data, atlas_affine, correspondence_label>>
       ELSE LET d == update_display(mri_data, file.shape, mri_affine, file.affine,
                                    mri_slice_axis, atlas_slice_axis,
                                    current_mri_slice_idx, slice_mapping,
                                    correspondence_label)
            IN /\ atlas_data' = file.shape
               /\ atlas_affine' = file.affine
               /\ correspondence_label' = d.label
               /\ last' = Event("load_atlas", 0,
                                IF d.raised THEN "error after load" ELSE "loaded")

(* "Reset mapping for new axis": the dict on_axis_changed assigns. *)
KeptMapping == slice_mapping
ResetMapping == EmptyMapping

(* on_axis_changed: the spin box emits valueChanged for a new value only. *)
on_axis_changed(axis) ==
    /\ axis # mri_slice_axis
    /\ written' = NoOutput
    /\ UNCHANGED <<mri_data, mri_affine, atlas_data, atlas_affine>>
    /\ mri_slice_axis' = axis
    /\ atlas_slice_axis' = axis
    /\ IF mri_data # None
       THEN LET num_slices == ShapeAt(mri_data, axis)
                s1 == SliderSetMaximum(mri_slider, num_slices - 1)
                c1 == SlotIdx(mri_slider, s1, current_mri_slice_idx)
                l1 == SlotLabel(mri_slider, s1, mri_data, atlas_data, mri_affine,
                                atlas_affine, axis, slice_mapping, correspondence_label)
                s2 == SliderSetValue(s1, 0)
                c2 == SlotIdx(s1, s2, c1)
                l2 == SlotLabel(s1, s2, mri_data, atlas_data, mri_affine,
                                atlas_affine, axis, slice_mapping, l1)
                d  == update_display(mri_data, atlas_data, mri_affine, atlas_affine,
                                     axis, axis, c2, ResetMapping, l2)
            IN /\ mri_slider' = s2
               /\ current_mri_slice_idx' = c2
               /\ slice_mapping' = ResetMapping
               /\ correspondence_label' = d.label
               /\ last' = [Event("on_axis_changed", 0,
                                 IF d.raised THEN "raised" ELSE "changed")
                             EXCEPT !.slot_read =
                                 \/ SlotReads(mri_slider, s1, mri_data, atlas_data,
                                              axis, slice_mapping)
                                 \/ SlotReads(s1, s2, mri_data, atlas_data,
                                              axis, slice_mapping)]
       ELSE /\ UNCHANGED <<mri_slider, current_mri_slice_idx, slice_mapping,
                           correspondence_label>>
            /\ last' = Event("on_axis_changed", 0, "changed")

(* on_mri_slice_changed: the user moves the slider to another value. *)
slice_changed_storing(value) ==
    /\ mri_slider.min <= value /\ value <= mri_slider.max
    /\ value # mri_slider.value
    /\ written' = NoOutput
    /\ UNCHANGED <<mri_data, mri_affine, atlas_data, atlas_affine,
                   mri_slice_axis, atlas_slice_axis>>
    /\ mri_slider' = [mri_slider EXCEPT !.value = value]
    /\ current_mri_slice_idx' = value
    /\ LET m == IF atlas_data = None \/ HasKey(slice_mapping, value) THEN slice_mapping
                ELSE MapSet(slice_mapping, value,
                            find_matching_atlas_slice(mri_affine, atlas_affine, atlas_data,
                                                      mri_slice_axis, atlas_slice_axis,
                                                      value))
           d == update_display(mri_data, atlas_data, mri_affine, atlas_affine,
                               mri_slice_axis, atlas_slice_axis, value,
                               m, correspondence_label)
       IN /\ slice_mapping' = m
          /\ correspondence_label' = d.label
          /\ last' = Event("on_mri_slice_changed", 0,
                           IF d.raised THEN "raised" ELSE "changed")

on_mri_slice_changed(value) ==
    /\ mri_slider.min <= value /\ value <= mri_slider.max
    /\ value # mri_slider.value
    /\ written' = NoOutput
    /\ UNCHANGED <<mri_data, mri_affine, atlas_data, atlas_affine,
                   mri_slice_axis, atlas_slice_axis, slice_mapping>>
    /\ mri_slider' = [mri_slider EXCEPT !.value = value]
    /\ current_mri_slice_idx' = value
    /\ LET d == update_display(mri_data, atlas_data, mri_affine, atlas_affine,
                               mri_slice_axis, atlas_slice_axis, value,
                               slice_mapping, correspondence_label)
       IN /\ correspondence_label' = d.label
          /\ last' = Event("on_mri_slice_changed", 0,
                           IF d.raised THEN "raised" ELSE "changed")


---------------------------------------------------------------------------
(* The body of auto_match_current, run for the handler named op (the       *)
(* button itself, or adjust_atlas_slice on a slice that has no entry).     *)
AutoMatchCurrentUnguarded(op, arg) ==
    /\ written' = NoOutput
    /\ UNCHANGED <<mri_data, mri_affine, atlas_data, atlas_affine,
                   mri_slice_axis, atlas_slice_axis, current_mri_slice_idx, mri_slider>>
    /\ IF mri_data = None
       THEN /\ last' = Event(op, arg, "load both first")
            /\ UNCHANGED <<slice_mapping, correspondence_label>>
       ELSE LET matched_atlas_idx ==
                    find_matching_atlas_slice(mri_affine, atlas_affine, atlas_data,
                                              mri_slice_axis, atlas_slice_axis,
                                              current_mri_slice_idx)
                m == MapSet(slice_mapping, current_mri_slice_idx, matched_atlas_idx)
                d == update_display(mri_data, atlas_data, mri_affine, atlas_affine,
                                    mri_slice_axis, atlas_slice_axis,
                                    current_mri_slice_idx, m, correspondence_label)
            IN /\ slice_mapping' = m
               /\ correspondence_label' = d.label
               /\ last' = Event(op, arg, "auto-matched")

AutoMatchCurrent(op, arg) ==
    /\ written' = NoOutput
    /\ UNCHANGED <<mri_data, mri_affine, atlas_data, atlas_affine,
                   mri_slice_axis, atlas_slice_axis, current_mri_slice_idx, mri_slider>>
    /\ IF mri_data = None \/ atlas_data = None
       THEN /\ last' = Event(op, arg, "load both first")
            /\ UNCHANGED <<slice_mapping, correspondence_label>>
       ELSE LET matched_atlas_idx ==
                    find_matching_atlas_slice(mri_affine, atlas_affine, atlas_data,
                                              mri_slice_axis, atlas_slice_axis,
                                              current_mri_slice_idx)
                m == MapSet(slice_mapping, current_mri_slice_idx, matched_atlas_idx)
                d == update_display(mri_data, atlas_data, mri_affine, atlas_affine,
                                    mri_slice_axis, atlas_slice_axis,
                                    current_mri_slice_idx, m, correspondence_label)
            IN /\ slice_mapping' = m
               /\ correspondence_label' = d.label
               /\ last' = Event(op, arg, "auto-matched")

auto_match_current == AutoMatchCurrent("auto_match_current", 0)

(* The loop of auto_match_all, from mri_idx on. *)
RECURSIVE MatchMissingFrom(_, _, _)
MatchMissingFrom(m, mri_idx, num_mri_slices) ==
    IF mri_idx >= num_mri_slices THEN m
    ELSE MatchMissingFrom(
             IF HasKey(m, mri_idx) THEN m
             ELSE MapSet(m, mri_idx,
                         find_matching_atlas_slice(mri_affine, atlas_affine, atlas_data,
                                                   mri_slice_axis, atlas_slice_axis,
                                                   mri_idx)),
             mri_idx + 1, num_mri_slices)

RECURSIVE MatchFrom(_, _, _)
MatchFrom(m, mri_idx, num_mri_slices) ==
    IF mri_idx >= num_mri_slices THEN m
    ELSE MatchFrom(MapSet(m, mri_idx,
                          find_matching_atlas_slice(mri_affine, atlas_affine, atlas_data,
                                                    mri_slice_axis, atlas_slice_axis,
                                                    mri_idx)),
                   mri_idx + 1, num_mri_slices)

auto_match_all ==
    /\ written' = NoOutput
    /\ UNCHANGED <<mri_data, mri_affine, atlas_data, atlas_affine,
                   mri_slice_axis, atlas_slice_axis, current_mri_slice_idx, mri_slider>>
    /\ IF mri_data = None \/ atlas_data = None
       THEN /\ last' = Event("auto_match_all", 0, "load both first")
            /\ UNCHANGED <<slice_mapping, correspondence_label>>
       ELSE LET num_mri_slices == ShapeAt(mri_data, mri_slice_axis)
                m == MatchFrom(slice_mapping, 0, num_mri_slices)
                d == update_display(mri_data, atlas_data, mri_affine, atlas_affine,
                                    mri_slice_axis, atlas_slice_axis,
                                    current_mri_slice_idx, m, correspondence_label)
            IN /\ slice_mapping' = m
               /\ correspondence_label' = d.label
               /\ last' = Event("auto_match_all", 0, "auto-matched all")

(* max(0, min(new_atlas_idx, max_atlas_idx)) *)
ClampUpperOnly(new_atlas_idx, max_atlas_idx) == Min(new_atlas_idx, max_atlas_idx)
ClampIndex(new_atlas_idx, max_atlas_idx) == Max(0, Min(new_atlas_idx, max_atlas_idx))

adjust_applying_delta(delta) ==
    /\ written' = NoOutput
    /\ UNCHANGED <<mri_data, mri_affine, atlas_data, atlas_affine,
                   mri_slice_axis, atlas_slice_axis, current_mri_slice_idx, mri_slider>>
    /\ IF atlas_data = None \/ mri_data = None
       THEN /\ last' = Event("adjust_atlas_slice", delta, "load both first")
            /\ UNCHANGED <<slice_mapping, correspondence_label>>
       ELSE LET mapped == HasKey(slice_mapping, current_mri_slice_idx)
                current_atlas_idx ==
                    IF mapped THEN Lookup(slice_mapping, current_mri_slice_idx)
                    ELSE find_matching_atlas_slice(mri_affine, atlas_affine, atlas_data,
                                                   mri_slice_axis, atlas_slice_axis,
                                                   current_mri_slice_idx)
                max_atlas_idx == ShapeAt(atlas_data, atlas_slice_axis) - 1
                m == MapSet(slice_mapping, current_mri_slice_idx,
                            Max(0, Min(current_atlas_idx + delta, max_atlas_idx)))
                d == update_display(mri_data, atlas_data, mri_affine, atlas_affine,
                                    mri_slice_axis, atlas_slice_axis,
                                    current_mri_slice_idx, m, correspondence_label)
            IN /\ slice_mapping' = m
               /\ correspondence_label' = d.label
               /\ last' = Event("adjust_atlas_slice", delta,
                                IF mapped THEN "adjusted" ELSE "auto-matched")

adjust_atlas_slice(delta) ==
    IF ~HasKey(slice_mapping, current_mri_slice_idx)
    THEN AutoMatchCurrent("adjust_atlas_slice", delta)
    ELSE /\ written' = NoOutput
         /\ UNCHANGED <<mri_data, mri_affine, atlas_data, atlas_affine,
                        mri_slice_axis, atlas_slice_axis, current_mri_slice_idx,
                        mri_slider>>
         /\ IF atlas_data = None
            THEN /\ last' = Event("adjust_atlas_slice", delta, "no atlas")
                 /\ UNCHANGED <<slice_mapping, correspondence_label>>
            ELSE LET current_atlas_idx == Lookup(slice_mapping, current_mri_slice_idx)
                     max_atlas_idx == ShapeAt(atlas_data, atlas_slice_axis) - 1
                     new_atlas_idx == ClampIndex(current_atlas_idx + delta, max_atlas_idx)
                     m == MapSet(slice_mapping, current_mri_slice_idx, new_atlas_idx)
                     d == update_display(mri_data, atlas_data, mri_affine, atlas_affine,
                                         mri_slice_axis, atlas_slice_axis,
                                         current_mri_slice_idx, m, correspondence_label)
                 IN /\ slice_mapping' = m
                    /\ correspondence_label' = d.label
                    /\ last' = Event("adjust_atlas_slice", delta, "adjusted")

---------------------------------------------------------------------------
(* str(n) of an int, as csv.writer and json.dump render it: a sequence of  *)
(* characters.                                                             *)
DigitChars == <<"0", "1", "2", "3", "4", "5", "6", "7", "8", "9">>

RECURSIVE NatStr(_)
NatStr(n) ==
    IF n < 10 THEN <<DigitChars[n + 1]>>
    ELSE Append(NatStr(n \div 10), DigitChars[(n % 10) + 1])

IntStr(n) == IF n < 0 THEN <<"-">> \o NatStr(-n) ELSE NatStr(n)

(* sorted(keys): ascending, smallest first. *)
RECURSIVE Sorted(_)
Sorted(S) ==
    IF S = {} THEN <<>>
    ELSE LET lo == CHOOSE x \in S : \A y \in S : x <= y
         IN <<lo>> \o Sorted(S \ {lo})

(* The order in which export_mapping writes the rows of the CSV file. *)
InsertionKeyOrder(m) == [n \in 1..Len(m) |-> m[n][1]]
CsvKeyOrder(m) == Sorted(Keys(m))

CsvHeader == <<"MRI_Slice_Index", "Atlas_Slice_Index">>

CsvFile(m) ==
    LET order == CsvKeyOrder(m)
    IN [NoOutput EXCEPT
          !.kind = "csv",
          !.header = CsvHeader,
          !.rows = [n \in 1..Len(order) |->
                      <<IntStr(order[n]), IntStr(Lookup(m, order[n]))>>]]

(* The JSON document: 'mapping' is an object, so its keys are strings, in  *)
(* the iteration order of the dict.                                        *)
JsonFileCurrentOnly(m) ==
    [kind |-> "json", header |-> <<>>,
     rows |-> IF HasKey(m, current_mri_slice_idx)
              THEN <<<<IntStr(current_mri_slice_idx), Lookup(m, current_mri_slice_idx)>>>>
              ELSE <<>>,
     axis |-> mri_slice_axis,
     axis_name |-> axis_names[mri_slice_axis],
     mri_shape |-> mri_data,
     atlas_shape |-> atlas_data]

JsonFile(m) ==
    [kind |-> "json", header |-> <<>>,
     rows |-> [n \in 1..Len(m) |-> <<IntStr(m[n][1]), m[n][2]>>],
     axis |-> mri_slice_axis,
     axis_name |-> axis_names[mri_slice_axis],
     mri_shape |-> mri_data,
     atlas_shape |-> atlas_data]

(* A write that raised: no complete file (it was not opened, or was left   *)
(* incomplete).                                                            *)
Truncated == [NoOutput EXCEPT !.kind = "truncated"]

Formats == {"json", "csv"}
ExportChoices == {"cancelled", "written", "io error"}
FormatCode(format_type) == IF format_type = "json" THEN 0 ELSE 1

WriteExport(format_type, choice) ==
    /\ last' = Event("export_mapping", FormatCode(format_type), choice)
    /\ CASE choice = "cancelled" -> written' = NoOutput
         [] choice = "written" ->
              written' = IF format_type = "json" THEN JsonFile(slice_mapping)
                         ELSE CsvFile(slice_mapping)
         [] OTHER -> written' = Truncated

export_unchecked(format_type, choice) ==
    /\ UNCHANGED <<mri_data, mri_affine, atlas_data, atlas_affine,
                   mri_slice_axis, atlas_slice_axis, current_mri_slice_idx,
                   mri_slider, slice_mapping, correspondence_label>>
    /\ WriteExport(format_type, choice)

(* export_mapping.  choice is what the save dialog and the write did; with *)
(* an empty mapping no dialog opens, and choice is left at "cancelled".    *)
export_mapping(format_type, choice) ==
    /\ UNCHANGED <<mri_data, mri_affine, atlas_data, atlas_affine,
                   mri_slice_axis, atlas_slice_axis, current_mri_slice_idx,
                   mri_slider, slice_mapping, correspondence_label>>
    /\ IF slice_mapping = EmptyMapping
       THEN /\ choice = "cancelled"
            /\ written' = NoOutput
            /\ last' = Event("export_mapping", FormatCode(format_type),
                             "no mapping to export")
       ELSE WriteExport(format_type, choice)

---------------------------------------------------------------------------
Next ==
    \/ \E file \in MriFiles, choice \in LoadChoices : load_mri(file, choice)
    \/ \E file \in AtlasFiles, choice \in LoadChoices : load_atlas(file, choice)
    \/ \E axis \in Axes : on_axis_changed(axis)
    \/ \E value \in -1..MaxMriSlices : on_mri_slice_changed(value)
    \/ auto_match_current
    \/ auto_match_all
    \/ \E delta \in Deltas : adjust_atlas_slice(delta)
    \/ \E format_type \in Formats, choice \in ExportChoices :
          export_mapping(format_type, choice)

Spec == Init /\ [][Next]_vars

---------------------------------------------------------------------------
(* The same program with an MRI file that has no slice along axis 2 among  *)
(* the files the user can pick (nib.load and get_fdata accept an empty     *)
(* axis; shape[axis] is then 0 and setMaximum gets -1).                    *)
MriEmpty == [shape  |-> <<1, 2, 0>>,
             affine |-> << <<3, 0, 1, 0>>,
                           <<0, 2, 0, -1>>,
                           <<1, 1, 2, 2>>,
                           <<0, 0, 0, 1>> >>]
EmptyAxisMriFiles == {MriEmpty}
EmptyAxisAtlasFiles == {AtlasA}

NextEmptyAxis ==
    \/ \E file \in EmptyAxisMriFiles, choice \in LoadChoices : load_mri(file, choice)
    \/ \E file \in EmptyAxisAtlasFiles, choice \in LoadChoices : load_atlas(file, choice)
    \/ \E axis \in Axes : on_axis_changed(axis)
    \/ \E value \in -1..MaxMriSlices : on_mri_slice_changed(value)
    \/ auto_match_current
    \/ auto_match_all
    \/ \E delta \in Deltas : adjust_atlas_slice(delta)
    \/ \E format_type \in Formats, choice \in ExportChoices :
          export_mapping(format_type, choice)

SpecEmptyAxis == Init /\ [][NextEmptyAxis]_vars


---------------------------------------------------------------------------
(* Shorthands of the properties below. *)
BothLoaded == mri_data # None /\ atlas_data # None
NumMriSlices == ShapeAt(mri_data, mri_slice_axis)
NumAtlasSlices == ShapeAt(atlas_data, atlas_slice_axis)
Found(mri_idx) ==
    find_matching_atlas_slice(mri_affine, atlas_affine, atlas_data,
                              mri_slice_axis, atlas_slice_axis, mri_idx)
(* |world(j) - world of MRI slice i| *)
Distance(i, j) ==
    Abs(get_slice_position_world(atlas_affine, atlas_slice_axis, j)
        - get_slice_position_world(mri_affine, mri_slice_axis, i))

(* C1: with both volumes loaded and at least one atlas slice along the     *)
(* axis, the index found for every MRI slice is an atlas index, no atlas   *)
(* slice is nearer to the MRI slice's world position, and every lower      *)
(* index is strictly farther (ties go to the lowest index).                *)
C1_NearestLowestIndex ==
    (BothLoaded /\ NumAtlasSlices >= 1) =>
        \A i \in 0..(NumMriSlices - 1) :
            LET b == Found(i)
            IN /\ b \in 0..(NumAtlasSlices - 1)
               /\ \A j \in 0..(NumAtlasSlices - 1) :
                     /\ Distance(i, b) <= Distance(i, j)
                     /\ (j < b => Distance(i, j) > Distance(i, b))

(* An auto-match of the current slice stored an index that a higher index  *)
(* ties with, and that is not index 0.                                     *)
C1_Witness ==
    /\ last.op = "auto_match_current" /\ last.outcome = "auto-matched"
    /\ HasKey(slice_mapping, current_mri_slice_idx)
    /\ LET b == Lookup(slice_mapping, current_mri_slice_idx)
       IN /\ b > 0
          /\ b = Found(current_mri_slice_idx)
          /\ \E j \in (b + 1)..(NumAtlasSlices - 1) :
                Distance(current_mri_slice_idx, j) = Distance(current_mri_slice_idx, b)

(* C2 (as claimed): after a volume was loaded, MRI or atlas, the map is    *)
(* empty.                                                                  *)
C2_ReloadDiscardsMap ==
    (last.op \in {"load_mri", "load_atlas"} /\ last.outcome = "loaded") =>
        slice_mapping = EmptyMapping

(* C3: after an axis change the map is empty, whatever it held before.     *)
C3_AxisChangeClearsMap ==
    last.op = "on_axis_changed" => slice_mapping = EmptyMapping

(* An axis change that found entries in the map. *)
C3_Witness ==
    last.op = "on_axis_changed" /\ last.size >= 2 /\ slice_mapping = EmptyMapping

(* C4 (as claimed): no auto-match ends with an index when the atlas has no *)
(* slice along the axis.                                                   *)
C4_NoIndexWithoutSlices ==
    (last.outcome = "auto-matched" /\ BothLoaded) => NumAtlasSlices >= 1


(* C5 (as claimed): after adjust on a slice that had no entry, the slice   *)
(* has an entry, and it is the index found for it.                         *)
C5_AdjustPopulatesUnmapped ==
    (last.op = "adjust_atlas_slice" /\ last.prior = NoEntry) =>
        /\ HasKey(slice_mapping, current_mri_slice_idx)
        /\ Lookup(slice_mapping, current_mri_slice_idx) = Found(current_mri_slice_idx)

(* C5 (amended): after adjust on a slice that had no entry, if both        *)
(* volumes are loaded the slice has the index found for it, whatever the   *)
(* delta (the delta is not applied); if a volume is missing nothing is     *)
(* stored.                                                                 *)
C5_AdjustBootstrapsWhenLoaded ==
    (last.op = "adjust_atlas_slice" /\ last.prior = NoEntry) =>
        IF BothLoaded
        THEN /\ HasKey(slice_mapping, current_mri_slice_idx)
             /\ Lookup(slice_mapping, current_mri_slice_idx)
                  = Found(current_mri_slice_idx)
             /\ Len(slice_mapping) = last.size + 1
        ELSE /\ ~HasKey(slice_mapping, current_mri_slice_idx)
             /\ Len(slice_mapping) = last.size

(* An adjust on an unmapped slice whose delta, had it been applied, would  *)
(* have given another index than the one stored.                           *)
C5_Witness ==
    /\ last.op = "adjust_atlas_slice" /\ last.prior = NoEntry
    /\ BothLoaded /\ NumAtlasSlices >= 2
    /\ HasKey(slice_mapping, current_mri_slice_idx)
    /\ LET f == Found(current_mri_slice_idx)
       IN /\ 0 <= f + last.arg /\ f + last.arg <= NumAtlasSlices - 1
          /\ Lookup(slice_mapping, current_mri_slice_idx) = f

(* C6: adjust on a slice whose entry was t stores t + delta when that lies *)
(* in [0, n - 1], 0 when it is below, n - 1 when it is above (n the atlas  *)
(* slice count along the axis); the stored index is never negative, and is *)
(* 0 when the atlas has no slice along the axis.                           *)
C6_AdjustSaturates ==
    (last.op = "adjust_atlas_slice" /\ last.outcome = "adjusted") =>
        /\ HasKey(slice_mapping, current_mri_slice_idx)
        /\ LET s == last.prior + last.arg
               n == NumAtlasSlices
               v == Lookup(slice_mapping, current_mri_slice_idx)
           IN /\ v >= 0
              /\ n = 0 => v = 0
              /\ n >= 1 => /\ (s < 0 => v = 0)
                           /\ (s > n - 1 => v = n - 1)
                           /\ (0 <= s /\ s <= n - 1 => v = s)

(* An adjust by -10 of an entry that lay in the atlas: it stopped at 0.    *)
C6_Witness ==
    /\ last.op = "adjust_atlas_slice" /\ last.outcome = "adjusted"
    /\ last.arg = -10 /\ last.prior >= 1 /\ last.prior <= NumAtlasSlices - 1
    /\ Lookup(slice_mapping, current_mri_slice_idx) = 0

(* C7 (as claimed): after auto_match_all with an MRI of N slices, every i  *)
(* in [0, N) has the index found for it.                                   *)
C7_AutoFillOverwritesAll ==
    (last.op = "auto_match_all" /\ mri_data # None) =>
        \A i \in 0..(NumMriSlices - 1) :
            HasKey(slice_mapping, i) /\ Lookup(slice_mapping, i) = Found(i)

(* C7 (amended): after auto_match_all, if both volumes are loaded every i  *)
(* in [0, N) has the index found for it, whatever entry it had; if a       *)
(* volume is missing nothing is stored.                                    *)
C7_AutoFillWhenLoaded ==
    last.op = "auto_match_all" =>
        IF BothLoaded
        THEN \A i \in 0..(NumMriSlices - 1) :
                 HasKey(slice_mapping, i) /\ Lookup(slice_mapping, i) = Found(i)
        ELSE slice_mapping = EmptyMapping /\ last.size = 0

(* An auto_match_all that replaced an adjusted entry of the current slice. *)
C7_Witness ==
    /\ last.op = "auto_match_all" /\ BothLoaded /\ NumMriSlices >= 2
    /\ last.size >= 1
    /\ last.prior # NoEntry /\ last.prior # Found(current_mri_slice_idx)
    /\ Lookup(slice_mapping, current_mri_slice_idx) = Found(current_mri_slice_idx)

(* C8 (as claimed): every index just written by auto_match_current,        *)
(* auto_match_all or adjust lies in [0, n - 1], n the atlas slice count    *)
(* along the axis.                                                         *)
C8_WrittenIndexInRange ==
    /\ last.outcome \in {"auto-matched", "adjusted"} =>
          Lookup(slice_mapping, current_mri_slice_idx) \in 0..(NumAtlasSlices - 1)
    /\ last.outcome = "auto-matched all" =>
          \A i \in 0..(NumMriSlices - 1) :
              Lookup(slice_mapping, i) \in 0..(NumAtlasSlices - 1)

(* The inverse of IntStr. *)
DigitValue(c) == (CHOOSE d \in 1..10 : DigitChars[d] = c) - 1
RECURSIVE ParseNat(_)
ParseNat(str) ==
    IF Len(str) = 0 THEN 0
    ELSE ParseNat(SubSeq(str, 1, Len(str) - 1)) * 10 + DigitValue(str[Len(str)])
ParseInt(str) == IF str[1] = "-" THEN -ParseNat(Tail(str)) ELSE ParseNat(str)

(* C9: an export of an empty map, in either format, ends with the "no      *)
(* mapping to export" message and writes nothing.                          *)
C9_EmptyExportFails ==
    (last.op = "export_mapping" /\ slice_mapping = EmptyMapping) =>
        last.outcome = "no mapping to export" /\ written = NoOutput

(* A CSV export asked for with volumes loaded and nothing matched yet. *)
C9_Witness ==
    /\ last.op = "export_mapping" /\ last.arg = FormatCode("csv")
    /\ BothLoaded /\ slice_mapping = EmptyMapping
    /\ last.outcome = "no mapping to export"

(* The rows of a written CSV file: one per entry of the map, each with its *)
(* key and the index stored for it, keys strictly ascending.               *)
CsvRowsMatchMap ==
    /\ Len(written.rows) = Cardinality(Keys(slice_mapping))
    /\ \A n \in 1..Len(written.rows) :
          /\ Len(written.rows[n]) = 2
          /\ ParseInt(written.rows[n][1]) \in Keys(slice_mapping)
          /\ ParseInt(written.rows[n][2])
               = Lookup(slice_mapping, ParseInt(written.rows[n][1]))
    /\ \A n \in 1..(Len(written.rows) - 1) :
          ParseInt(written.rows[n][1]) < ParseInt(written.rows[n + 1][1])

(* C10 (as claimed): a written CSV file has the header Source_Slice_Index, *)
(* Target_Slice_Index and the rows above.                                  *)
C10_TabularExport ==
    written.kind = "csv" =>
        /\ written.header = <<"Source_Slice_Index", "Target_Slice_Index">>
        /\ CsvRowsMatchMap

(* C10 (amended): a written CSV file has the header MRI_Slice_Index,       *)
(* Atlas_Slice_Index and the rows above.                                   *)
C10_TabularExportMriAtlas ==
    written.kind = "csv" =>
        /\ written.header = <<"MRI_Slice_Index", "Atlas_Slice_Index">>
        /\ CsvRowsMatchMap

(* A CSV file written from a map whose entries were inserted in descending *)
(* key order.                                                              *)
C10_Witness ==
    /\ written.kind = "csv" /\ Len(slice_mapping) >= 2
    /\ slice_mapping[1][1] > slice_mapping[2][1]
    /\ Len(written.rows) = Len(slice_mapping)


(* C11: a written JSON document carries the active axis, that axis's name  *)
(* (0 AP, 1 LR, 2 SI), and a mapping whose keys are exactly the keys of    *)
(* the map, each with the index stored for it.                             *)
C11_StructuredExport ==
    written.kind = "json" =>
        /\ written.axis = mri_slice_axis
        /\ written.axis_name = (CASE written.axis = 0 -> "AP"
                                  [] written.axis = 1 -> "LR"
                                  [] written.axis = 2 -> "SI"
                                  [] OTHER -> "")
        /\ Len(written.rows) = Cardinality(Keys(slice_mapping))
        /\ {ParseInt(written.rows[n][1]) : n \in 1..Len(written.rows)}
             = Keys(slice_mapping)
        /\ \A n \in 1..Len(written.rows) :
              written.rows[n][2] = Lookup(slice_mapping, ParseInt(written.rows[n][1]))

(* A JSON document written for another axis than SI, from a map of several *)
(* entries of which one was adjusted.                                      *)
C11_Witness ==
    /\ written.kind = "json" /\ mri_slice_axis # DefaultAxis
    /\ Len(slice_mapping) >= 2 /\ Len(written.rows) = Len(slice_mapping)
    /\ \E n \in 1..Len(slice_mapping) :
          slice_mapping[n][2] # Found(slice_mapping[n][1])

(* C12: the world position of slice idx along axis is                      *)
(* affine[axis][axis] * idx + affine[axis][3], for the affine of either    *)
(* loaded volume, every axis and every index.                              *)
LoadedAffines == {mri_affine, atlas_affine} \ {None}
C12_WorldPosition ==
    \A affine \in LoadedAffines : \A axis \in Axes :
        \A idx \in -1..(MaxMriSlices + MaxAtlasSlices) :
            get_slice_position_world(affine, axis, idx)
              = affine[axis + 1][axis + 1] * idx + affine[axis + 1][4]

(* An auto-match of a slice other than 0, under an MRI affine whose row of *)
(* the active axis has a non-zero entry in another spatial column.         *)
C12_Witness ==
    /\ last.outcome = "auto-matched" /\ BothLoaded
    /\ current_mri_slice_idx >= 1
    /\ \E k \in Axes \ {mri_slice_axis} : mri_affine[mri_slice_axis + 1][k + 1] # 0


(* C13: a move of the slider leaves slice_mapping as it was; when the      *)
(* refresh it runs completes with an atlas loaded, the label shows the     *)
(* stored index of the new current slice if it has one, and otherwise the  *)
(* index found for it, marked as not stored.                               *)
C13_NavigationKeepsMap ==
    [][last'.op = "on_mri_slice_changed" =>
         /\ slice_mapping' = slice_mapping
         /\ (last'.outcome = "changed" /\ atlas_data # None) =>
               correspondence_label' =
                 IF HasKey(slice_mapping, current_mri_slice_idx')
                 THEN Label(current_mri_slice_idx',
                            Lookup(slice_mapping, current_mri_slice_idx'), "matched")
                 ELSE Label(current_mri_slice_idx',
                            find_matching_atlas_slice(mri_affine, atlas_affine, atlas_data,
                                                      mri_slice_axis, atlas_slice_axis,
                                                      current_mri_slice_idx'),
                            "unmatched")]_vars

(* The slider was moved to a slice without an entry while another slice    *)
(* has one: the index found is shown and the map has no entry for it.      *)
C13_Witness ==
    /\ last.op = "on_mri_slice_changed" /\ last.outcome = "changed"
    /\ BothLoaded /\ last.size >= 1 /\ Len(slice_mapping) = last.size
    /\ ~HasKey(slice_mapping, current_mri_slice_idx)
    /\ correspondence_label
         = Label(current_mri_slice_idx, Found(current_mri_slice_idx), "unmatched")


(* C14 (as claimed): in every state with an atlas loaded, every index      *)
(* stored in the map lies in [0, n - 1], n the atlas slice count along the *)
(* active axis.                                                            *)
C14_StoredIndexInRange ==
    atlas_data # None =>
        \A n \in 1..Len(slice_mapping) :
            slice_mapping[n][2] \in 0..(NumAtlasSlices - 1)


---------------------------------------------------------------------------
(* C15: during an axis change the map is discarded before any display      *)
(* refresh resolves a target index: the slice-changed callback fired by    *)
(* the slider reset inside on_axis_changed never reads an entry that was   *)
(* stored under the previous axis.                                         *)
C15_NoStaleRead ==
    last.op = "on_axis_changed" => ~last.slot_read


---------------------------------------------------------------------------
(* C16: in every reachable state every key of the map lies within          *)
(* [0, m - 1], m the slice count of the loaded source volume along the     *)
(* active axis; a non-empty map implies that a source volume is loaded and *)
(* that the current source slice index is within that range.               *)
C16_KeysInRange ==
    slice_mapping # EmptyMapping =>
        /\ mri_data # None
        /\ \A k \in Keys(slice_mapping) : k \in 0..(NumMriSlices - 1)
        /\ current_mri_slice_idx \in 0..(NumMriSlices - 1)


---------------------------------------------------------------------------
(* C17: when the source or the target volume is not loaded,                *)
(* auto-match-current, auto-match-all and adjust leave the map unchanged,  *)
(* and the map is non-empty only in states where both volumes are loaded.  *)
MatchingOps == {"auto_match_current", "auto_match_all", "adjust_atlas_slice"}
C17_UnloadedLeavesMap ==
    /\ [](slice_mapping # EmptyMapping => BothLoaded)
    /\ [][(last'.op \in MatchingOps /\ ~BothLoaded) =>
             /\ slice_mapping' = slice_mapping
             /\ last'.outcome \in {"load both first", "no atlas"}]_vars

C17_Witness ==
    /\ last.op = "adjust_atlas_slice"
    /\ last.outcome = "load both first"
    /\ mri_data # None
    /\ atlas_data = None
    /\ slice_mapping = EmptyMapping


---------------------------------------------------------------------------
(* C18: auto-match-current and adjust modify at most the entry of the      *)
(* current source index: the entries of every other source index, the      *)
(* active axis and the current source index are unchanged by them; export, *)
(* in any outcome, changes no entry at all.                                *)
OtherEntries(m, k) == {m[n] : n \in {i \in DOMAIN m : m[i][1] # k}}
C18_OnlyCurrentEntry ==
    [][/\ last'.op \in {"auto_match_current", "adjust_atlas_slice"} =>
            /\ OtherEntries(slice_mapping', current_mri_slice_idx)
                  = OtherEntries(slice_mapping, current_mri_slice_idx)
            /\ mri_slice_axis' = mri_slice_axis
            /\ atlas_slice_axis' = atlas_slice_axis
            /\ current_mri_slice_idx' = current_mri_slice_idx
       /\ last'.op = "export_mapping" => slice_mapping' = slice_mapping]_vars

C18_Witness ==
    /\ last.op = "adjust_atlas_slice"
    /\ last.outcome = "adjusted"
    /\ last.size >= 2
    /\ Len(slice_mapping) = last.size
    /\ Lookup(slice_mapping, current_mri_slice_idx) # last.prior

=============================================================================
